---- MODULE Spec2Model ----
(***************************************************************************)
(* A model of JitHashTable (src/src/coreclr/jit/jithashtable.h): a chained *)
(* hash table whose bucket array has a length taken from a static table of *)
(* primes, indexed by a division-free remainder, grown by rehashing the    *)
(* existing nodes into a new bucket array.                                 *)
(*                                                                         *)
(* The table is instantiated as JitHashTable<unsigned,                     *)
(* JitSmallPrimitiveKeyFuncs<unsigned>, unsigned> with the default         *)
(* JitHashTableBehavior.  Pointers are node addresses, nullptr is 0.  A C  *)
(* array index i is the sequence index i + 1.                              *)
(***************************************************************************)
EXTENDS Integers, Sequences, FiniteSets, TLC

VARIABLES
    m_table,          \* Node** m_table: the bucket heads, <<>> when nullptr
    m_tableSizeInfo,  \* JitPrimeInfo m_tableSizeInfo
    m_tableCount,     \* unsigned m_tableCount
    m_tableMax,       \* unsigned m_tableMax
    heap,             \* the live Node objects, by address
    m_alloc,          \* the allocator: the bucket arrays it has handed out and
                      \* not got back
    halt,             \* "none", or how the program stopped
    assertsOn,        \* the build: assert() checked (CHK/DBG) or compiled out
    contractOK,       \* FALSE once a compiled-out assertion would have failed
    last,             \* the last call: its name, its results, whether it reallocated
    it,               \* the NodeIterator of the running range-for loop
    visited,          \* the nodes the running (or just finished) loop has yielded
    shadow,           \* ghost: key -> value most recently stored, 0 when not stored
    hist,             \* ghost, kept when hist.track: the keys ever inserted, the
                      \* counts of insertions and removals (in all, and since the
                      \* last RemoveAll), the stored keys in insertion order, and
                      \* whether a non-empty table was rehashed since then
    dom               \* the <<key, value>> arguments the callers use

vars == <<m_alloc, m_table, m_tableSizeInfo, m_tableCount, m_tableMax, heap, halt,
          assertsOn, contractOK, last, it, visited, shadow, hist, dom>>

tableVars == <<m_alloc, m_table, m_tableSizeInfo, m_tableCount, m_tableMax, heap>>

-----------------------------------------------------------------------------
(* Bounds of the model. *)

\* Remove calls that remove a key, per behaviour, while hist counts them.
MaxRemoves == 2

\* Spare node addresses beyond one per key.
SpareAddrs == 1

\* The largest count for which the size computation of Grow is run alone.
MaxGrowCount == 60

-----------------------------------------------------------------------------
(* JitHashTableBehavior *)

s_growth_factor_numerator == 3

s_growth_factor_denominator == 2

s_density_factor_numerator == 3

s_density_factor_denominator == 4

s_minimum_allocation == 7

nullptr == 0

\* enum SetKind
None == 0

Overwrite == 1

-----------------------------------------------------------------------------
(* JitPrimeInfo.  The 32-bit magic multiplier is kept as its two 16-bit    *)
(* halves, magic = magicHi * 2^16 + magicLo, so that the 64-bit product of *)
(* magicNumberDivide is computed without leaving the integers of TLC.      *)

JitPrimeInfo(p, mHi, mLo, s) ==
    [prime |-> p, magicHi |-> mHi, magicLo |-> mLo, shift |-> s]

\* JitPrimeInfo(): prime(0), magic(0), shift(0)
JitPrimeInfoDefault ==
    JitPrimeInfo(0, 0, 0, 0)

\* The values of jitPrimeInfo[27] are defined outside the header (it is only
\* declared extern there).  Each entry is a size with a 32-bit magic number
\* that makes magicNumberRem exact for every 32-bit numerator.
jitPrimeInfo ==
    << JitPrimeInfo(9,         14563, 36409, 1),
       JitPrimeInfo(23,        45590, 17097, 4),
       JitPrimeInfo(59,        8886,  15551, 3),
       JitPrimeInfo(131,       64035, 11507, 7),
       JitPrimeInfo(239,       35098, 51003, 7),
       JitPrimeInfo(433,       2421,  42833, 4),
       JitPrimeInfo(761,       22046, 18085, 8),
       JitPrimeInfo(1399,      47969, 10915, 10),
       JitPrimeInfo(2473,      27136, 40705, 10),
       JitPrimeInfo(4327,      62037, 20553, 12),
       JitPrimeInfo(7499,      17898, 5471,  11),
       JitPrimeInfo(12973,     5172,  63187, 10),
       JitPrimeInfo(22433,     11966, 6363,  12),
       JitPrimeInfo(46559,     46123, 60373, 15),
       JitPrimeInfo(96581,     44470, 6939,  16),
       JitPrimeInfo(200341,    10719, 9313,  15),
       JitPrimeInfo(415517,    41345, 50285, 18),
       JitPrimeInfo(861719,    19936, 48613, 18),
       JitPrimeInfo(1787021,   38454, 50287, 20),
       JitPrimeInfo(3705617,   18544, 44481, 20),
       JitPrimeInfo(7684087,   35772, 23427, 22),
       JitPrimeInfo(15933877,  34502, 21345, 23),
       JitPrimeInfo(33040633,  16638, 51099, 23),
       JitPrimeInfo(68513161,  32096, 23761, 25),
       JitPrimeInfo(142069021, 61914, 14603, 27),
       JitPrimeInfo(294594427, 29858, 20605, 27),
       JitPrimeInfo(611063767, 7197,  23657, 26) >>

\* (num * mag) >> (32 + shift), for a numerator below 2^15 (every hash code
\* of the model): num * mag = hi * 2^16 + lo with hi, lo below 2^31.
magicNumberDivide(info, numerator) ==
    (((numerator * info.magicHi) + ((numerator * info.magicLo) \div 65536))
        \div 65536) \div (2 ^ info.shift)

\* numerator - div * prime; with prime = 0 the assertion's `numerator % prime`
\* is undefined (see MagicRemUndefined), and the result is the numerator.
magicNumberRem(info, numerator) ==
    numerator - (magicNumberDivide(info, numerator) * info.prime)

\* The same two members over the whole range of `unsigned`: a 32-bit word is
\* the pair <<high, low>> of its 16-bit halves, 64-bit products are summed
\* from the products of halves, and the subtraction wraps at 2^32.
Word(n) ==
    <<n \div 65536, n % 65536>>

\* a * b for two halves, from u = a * (b / 256) and v = a * (b % 256)
MulJoin(u, v) ==
    << (u \div 256) + ((((u % 256) * 256) + v) \div 65536),
       (((u % 256) * 256) + v) % 65536 >>

Mul16(a, b) ==
    MulJoin(a * (b \div 256), a * (b % 256))

\* bits 32..63 of num * mag, from the four products of their halves
\* (ll = low * low, lh = low * high, hl = high * low, hh = high * high)
Sum2(ll, lh, hl, hh) ==
    ((ll[1] + lh[2] + hl[2]) \div 65536) + lh[1] + hl[1] + hh[2]

High32(ll, lh, hl, hh) ==
    << (Sum2(ll, lh, hl, hh) \div 65536) + hh[1], Sum2(ll, lh, hl, hh) % 65536 >>

Product64High(num, mag) ==
    High32(Mul16(num[2], mag[2]), Mul16(num[2], mag[1]),
           Mul16(num[1], mag[2]), Mul16(num[1], mag[1]))

\* w >> s for a 32-bit word and s below 32
ShiftRight32(w, s) ==
    IF s < 16
    THEN << w[1] \div (2 ^ s), (((w[1] % (2 ^ s)) * 65536) + w[2]) \div (2 ^ s) >>
    ELSE << 0, w[1] \div (2 ^ (s - 16)) >>

\* A 32-bit product in place of the 64-bit one: nothing is left above bit 31.
magicNumberDivideWide_Product32(info, numerator) ==
    ShiftRight32(<<0, 0>>, info.shift)

\* (unsigned)((num * mag) >> (32 + shift))
magicNumberDivideWide(info, numerator) ==
    ShiftRight32(Product64High(numerator, <<info.magicHi, info.magicLo>>), info.shift)

\* the low 32 bits of a * b (unsigned multiplication)
MulLowJoin(ll, cross) ==
    << (ll[1] + cross) % 65536, ll[2] >>

MulLow32(a, b) ==
    MulLowJoin(Mul16(a[2], b[2]), Mul16(a[2], b[1])[2] + Mul16(a[1], b[2])[2])

\* a - b modulo 2^32 (unsigned subtraction)
Sub32(a, b) ==
    << (((a[1] + 131072) - b[1]) - (IF a[2] < b[2] THEN 1 ELSE 0)) % 65536,
       ((a[2] + 65536) - b[2]) % 65536 >>

\* numerator - (div * prime)
magicNumberRemWide(info, numerator) ==
    Sub32(numerator, MulLow32(magicNumberDivideWide(info, numerator), Word(info.prime)))

\* numerator % prime of the assertion, bit by bit from bit 31 down (for a
\* prime below 2^30)
BitOf(x, i) ==
    IF i >= 16 THEN (x[1] \div (2 ^ (i - 16))) % 2 ELSE (x[2] \div (2 ^ i)) % 2

RECURSIVE RemainderFrom(_, _, _, _)
RemainderFrom(x, p, i, acc) ==
    IF i < 0 THEN acc ELSE RemainderFrom(x, p, i - 1, ((acc * 2) + BitOf(x, i)) % p)

Remainder(x, p) ==
    Word(RemainderFrom(x, p, 31, 0))

\* assert(result == numerator % prime) divides by zero when prime is 0.
MagicRemUndefined(info) ==
    assertsOn /\ info.prime = 0

-----------------------------------------------------------------------------
(* KeyFuncs: JitSmallPrimitiveKeyFuncs<unsigned> *)

GetHashCode(k) ==
    k

Equals(x, y) ==
    x = y

-----------------------------------------------------------------------------
(* The object: the five fields of `this`, the heap its nodes live in, and  *)
(* how far the running call got.                                           *)

This ==
    [m_alloc |-> m_alloc,
     m_table |-> m_table, m_tableSizeInfo |-> m_tableSizeInfo,
     m_tableCount |-> m_tableCount, m_tableMax |-> m_tableMax,
     heap |-> heap, halt |-> "none", contractOK |-> contractOK,
     realloc |-> FALSE]

Node(next, k, v) ==
    [m_next |-> next, m_key |-> k, m_val |-> v]

\* The keys of the instantiation, in a fixed order.
AllKeys ==
    <<0, 9, 207, 1, 2, 3, 4>>

KeySet ==
    {AllKeys[i] : i \in 1..Len(AllKeys)}

Addrs ==
    1..(Len(AllKeys) + SpareAddrs)

\* Allocator::allocate for a Node.  The allocator is an external collaborator
\* and may return any address that is not live; the table never compares or
\* orders addresses, so one representative is taken: the cell numbered like
\* the key when it is free, else the lowest free cell, else 0 (out of memory).
AllocNode(h, k) ==
    LET own  == CHOOSE i \in 1..Len(AllKeys) : AllKeys[i] = k
        free == Addrs \ DOMAIN h
    IN  IF own \in free THEN own
        ELSE IF free = {} THEN nullptr
        ELSE CHOOSE a \in free : \A b \in free : a <= b

\* Node::operator delete
FreeNode(h, pN) ==
    [a \in (DOMAIN h) \ {pN} |-> h[a]]

\* A heap with one more node.
WithNode(h, a, n) ==
    [b \in (DOMAIN h) \cup {a} |-> IF b = a THEN n ELSE h[b]]

-----------------------------------------------------------------------------
(* GetIndexForKey, FindNode, Lookup *)

GetIndexForKey(t, k) ==
    magicNumberRem(t.m_tableSizeInfo, GetHashCode(k))

\* while ((pN != nullptr) && !KeyFuncs::Equals(k, pN->m_key)) pN = pN->m_next;
RECURSIVE WalkChain(_, _, _)
WalkChain(h, pN, k) ==
    IF pN # nullptr /\ ~Equals(k, h[pN].m_key)
    THEN WalkChain(h, h[pN].m_next, k)
    ELSE pN

\* Variant of the chain search that compares the head of the chain only.
FindNodeFrom_HeadOnly(t, k, pN) ==
    IF pN = nullptr THEN nullptr
    ELSE IF Equals(k, t.heap[pN].m_key) THEN pN
    ELSE nullptr

FindNodeFrom(t, k, pN) ==
    IF pN = nullptr THEN nullptr
    ELSE WalkChain(t.heap, pN, k)

FindNode(t, k) ==
    IF t.m_tableSizeInfo.prime = 0 THEN nullptr
    ELSE FindNodeFrom(t, k, t.m_table[GetIndexForKey(t, k) + 1])

\* Lookup(k, pVal) with pVal != nullptr: <<return value, *pVal>>, *pVal being
\* 0 before the call.
LookupFound(t, pN) ==
    IF pN # nullptr THEN <<1, t.heap[pN].m_val>> ELSE <<0, 0>>

LookupResult(t, k) ==
    LookupFound(t, FindNode(t, k))

\* LookupPointer returns &(pN->m_val) as the address pN, or nullptr.
LookupPointer(t, k) ==
    FindNode(t, k)

\* Variant of operator[] that adds the key it does not find.
OperatorIndexAt_Adds(t, k, p, o) ==
    IF p # nullptr THEN [t |-> t, ret |-> p]
    ELSE [t |-> [t EXCEPT !.m_tableCount = @ + 1], ret |-> nullptr]

\* operator[]: Value* p = LookupPointer(k); assert(p); return *p;  The
\* reference returned is the address p.  Without the assertion `*p` of a null
\* p is undefined: o is what the build does then (trap, run on with what it
\* finds at address 0, or hand back a null reference).
OperatorIndexAt(t, k, p, o) ==
    IF p # nullptr THEN [t |-> t, ret |-> p]
    ELSE IF assertsOn THEN [t |-> [t EXCEPT !.halt = "assert"], ret |-> nullptr]
    ELSE [t |-> [t EXCEPT !.halt = IF o = "returns" THEN "none" ELSE o],
          ret |-> nullptr]

OperatorIndexCall(t, k, o) ==
    OperatorIndexAt(t, k, LookupPointer(t, k), o)

-----------------------------------------------------------------------------
(* NextPrime, Reallocate, Grow, CheckGrowth *)

\* The loop of NextPrime fell through: Behavior::NoMemory().
NextPrimeNoMemory(number) ==
    \A i \in 1..Len(jitPrimeInfo) : jitPrimeInfo[i].prime < number

RECURSIVE NextPrimeFrom(_, _)
\* Variant of the scan that wants a stored size above the number.
NextPrimeFrom_Above(i, number) ==
    IF jitPrimeInfo[i].prime > number
    THEN jitPrimeInfo[i]
    ELSE NextPrimeFrom(i + 1, number)

NextPrimeFrom(i, number) ==
    IF jitPrimeInfo[i].prime >= number
    THEN jitPrimeInfo[i]
    ELSE NextPrimeFrom(i + 1, number)

NextPrime(number) ==
    NextPrimeFrom(1, number)

\* The inner loop of Reallocate: relink the chain starting at pN into newTable.
RECURSIVE MoveChain(_, _, _, _)
\* pN->m_next = newTable[newIndex]; newTable[newIndex] = pN; pN = pNext;
\* Variant of the re-chaining step that installs the node as the only node of
\* its new bucket.
MoveNode_Unchained(h, newTable, pN, newPrime, newIndex) ==
    MoveChain([h EXCEPT ![pN].m_next = nullptr],
              [newTable EXCEPT ![newIndex + 1] = pN],
              h[pN].m_next, newPrime)

\* Variant of the re-chaining step that moves the entry into a newly
\* allocated node and frees the old one.
MoveNode_Copies(h, newTable, pN, newPrime, newIndex) ==
    MoveChain(WithNode(FreeNode(h, pN),
                       CHOOSE a \in Addrs \ DOMAIN h : TRUE,
                       Node(newTable[newIndex + 1], h[pN].m_key, h[pN].m_val)),
              [newTable EXCEPT ![newIndex + 1] = CHOOSE a \in Addrs \ DOMAIN h : TRUE],
              h[pN].m_next, newPrime)

MoveNode(h, newTable, pN, newPrime, newIndex) ==
    MoveChain([h EXCEPT ![pN].m_next = newTable[newIndex + 1]],
              [newTable EXCEPT ![newIndex + 1] = pN],
              h[pN].m_next, newPrime)

\* Variant of the inner loop that indexes against the smallest size.
MoveChain_StaleSize(h, newTable, pN, newPrime) ==
    IF pN = nullptr THEN [heap |-> h, table |-> newTable]
    ELSE MoveNode(h, newTable, pN, newPrime,
                  magicNumberRem(jitPrimeInfo[1], GetHashCode(h[pN].m_key)))

MoveChain(h, newTable, pN, newPrime) ==
    IF pN = nullptr THEN [heap |-> h, table |-> newTable]
    ELSE MoveNode(h, newTable, pN, newPrime,
                  magicNumberRem(newPrime, GetHashCode(h[pN].m_key)))

\* The outer loop of Reallocate: for (i = 0; i < m_tableSizeInfo.prime; i++).
RECURSIVE MoveBuckets(_, _, _, _, _, _)
MoveRest(m, oldTable, i, oldSize, newPrime) ==
    MoveBuckets(m.heap, oldTable, m.table, i, oldSize, newPrime)

MoveBuckets(h, oldTable, newTable, i, oldSize, newPrime) ==
    IF i >= oldSize THEN [heap |-> h, table |-> newTable]
    ELSE MoveRest(MoveChain(h, newTable, oldTable[i + 1], newPrime),
                  oldTable, i + 1, oldSize, newPrime)

\* m_table = newTable; m_tableSizeInfo = newPrime; m_tableMax = ...
\* m_alloc.allocate<Node*>(n): one more bucket array is out.
Allocate(alloc) ==
    [alloc EXCEPT !.arrays = @ + 1]

\* m_alloc.deallocate(table): the array comes back; of a null pointer nothing
\* does.  Reallocate calls it only if m_table != nullptr, RemoveAll always.
Deallocate(alloc, table) ==
    IF table = <<>> THEN alloc ELSE [alloc EXCEPT !.arrays = @ - 1]

\* Variant of the installation that does not release the old bucket array.
Install_KeepOld(t, newPrime, moved) ==
    [t EXCEPT !.m_table = moved.table,
              !.heap = moved.heap,
              !.m_tableSizeInfo = newPrime,
              !.m_tableMax = (newPrime.prime * s_density_factor_numerator)
                                \div s_density_factor_denominator,
              !.m_alloc = Allocate(t.m_alloc),
              !.realloc = TRUE]

\* Variant of the installation that sets the threshold to the size itself.
Install_FullDensity(t, newPrime, moved) ==
    [t EXCEPT !.m_table = moved.table,
              !.heap = moved.heap,
              !.m_tableSizeInfo = newPrime,
              !.m_tableMax = newPrime.prime,
              !.m_alloc = Deallocate(Allocate(t.m_alloc), t.m_table),
              !.realloc = TRUE]

Install(t, newPrime, moved) ==
    [t EXCEPT !.m_table = moved.table,
              !.heap = moved.heap,
              !.m_tableSizeInfo = newPrime,
              !.m_tableMax = (newPrime.prime * s_density_factor_numerator)
                                \div s_density_factor_denominator,
              !.m_alloc = Deallocate(Allocate(t.m_alloc), t.m_table),
              !.realloc = TRUE]

\* From the allocation of newTable on.
ReallocateWith(t, newPrime) ==
    Install(t, newPrime,
            MoveBuckets(t.heap, t.m_table, [i \in 1..newPrime.prime |-> nullptr],
                        0, t.m_tableSizeInfo.prime, newPrime))

\* assert(newTableSize >= (GetCount() * s_density_factor_denominator /
\*                         s_density_factor_numerator))
ReallocatePre(t, newTableSize) ==
    newTableSize >= ((t.m_tableCount * s_density_factor_denominator)
                        \div s_density_factor_numerator)

ReallocateChecked(t, newTableSize, pre) ==
    IF assertsOn /\ ~pre THEN [t EXCEPT !.halt = "assert"]
    ELSE IF NextPrimeNoMemory(newTableSize)
    THEN [t EXCEPT !.halt = "nomem", !.contractOK = @ /\ pre]
    ELSE ReallocateWith([t EXCEPT !.contractOK = @ /\ pre], NextPrime(newTableSize))

Reallocate(t, newTableSize) ==
    ReallocateChecked(t, newTableSize, ReallocatePre(t, newTableSize))

\* Variant of the size computation that multiplies before it divides.
GrowRequest_OneDivision(count) ==
    (count * s_growth_factor_numerator * s_density_factor_denominator)
        \div (s_growth_factor_denominator * s_density_factor_numerator)

\* Variant of the size computation without the growth factor.
GrowRequest_DensityOnly(count) ==
    (count * s_density_factor_denominator) \div s_density_factor_numerator

\* x * num / den of `unsigned`, for x * num below 2^32 (no wrap), computed
\* without a product above 2^31.
MulDiv(x, num, den) ==
    ((x \div den) * num) + (((x % den) * num) \div den)

\* The size Grow asks for (the counts of a table are at most three quarters
\* of the largest stored size, far from 2^32 / 3, where the product would
\* wrap).
GrowRequest(count) ==
    MulDiv(MulDiv(count, s_growth_factor_numerator, s_growth_factor_denominator),
           s_density_factor_denominator, s_density_factor_numerator)

ClampToMinimum(newSize) ==
    IF newSize < s_minimum_allocation THEN s_minimum_allocation ELSE newSize

GrowSize(count) ==
    ClampToMinimum(GrowRequest(count))

GrowTo(t, newSize) ==
    IF newSize < t.m_tableCount THEN [t EXCEPT !.halt = "nomem"]
    ELSE Reallocate(t, newSize)

Grow(t) ==
    GrowTo(t, GrowSize(t.m_tableCount))

\* Variant of CheckGrowth without the test of the count.
CheckGrowth_Always(t) ==
    Grow(t)

CheckGrowth(t) ==
    IF t.m_tableCount = t.m_tableMax THEN Grow(t) ELSE t

-----------------------------------------------------------------------------
(* LookupPointerOrAdd, Set, Emplace: the calls as functions of `this`,     *)
(* giving the object after the call and the call's return value.           *)

\* CheckGrowth(); assert(m_tableSizeInfo.prime != 0);
AssertAllocated(t) ==
    IF t.halt # "none" THEN t
    ELSE IF t.m_tableSizeInfo.prime # 0 THEN t
    ELSE [t EXCEPT !.halt = IF assertsOn THEN "assert" ELSE "crash"]

Prepared(t0) ==
    AssertAllocated(CheckGrowth(t0))

\* n = new (m_alloc) Node(m_table[index], k, v); m_table[index] = n;
\* m_tableCount++;
\* Variant of the insertion that links the node behind the head of the chain.
LinkNode_BehindHead(t, index, k, v, n) ==
    IF n = nullptr THEN [t |-> [t EXCEPT !.halt = "nomem"], ret |-> 0]
    ELSE IF t.m_table[index + 1] = nullptr
    THEN [t |-> [t EXCEPT
                   !.heap = WithNode(t.heap, n, Node(nullptr, k, v)),
                   !.m_table = [t.m_table EXCEPT ![index + 1] = n],
                   !.m_tableCount = t.m_tableCount + 1],
          ret |-> n]
    ELSE [t |-> [t EXCEPT
                   !.heap = WithNode([t.heap EXCEPT ![t.m_table[index + 1]].m_next = n],
                                     n,
                                     Node(t.heap[t.m_table[index + 1]].m_next, k, v)),
                   !.m_tableCount = t.m_tableCount + 1],
          ret |-> n]

LinkNode(t, index, k, v, n) ==
    IF n = nullptr THEN [t |-> [t EXCEPT !.halt = "nomem"], ret |-> 0]
    ELSE [t |-> [t EXCEPT
                   !.heap = WithNode(t.heap, n, Node(t.m_table[index + 1], k, v)),
                   !.m_table = [t.m_table EXCEPT ![index + 1] = n],
                   !.m_tableCount = t.m_tableCount + 1],
          ret |-> n]

LinkAtHead(t, index, k, v) ==
    LinkNode(t, index, k, v, AllocNode(t.heap, k))

\* Variant of LookupPointerOrAdd that stores defaultValue in the node found.
LookupPointerOrAddFrom_Store(t, k, defaultValue, index, n) ==
    IF n # nullptr
    THEN [t |-> [t EXCEPT !.heap[n].m_val = defaultValue], ret |-> n]
    ELSE LinkAtHead(t, index, k, defaultValue)

\* Returns &n->m_val as the address n.
LookupPointerOrAddFrom(t, k, defaultValue, index, n) ==
    IF n # nullptr THEN [t |-> t, ret |-> n]
    ELSE LinkAtHead(t, index, k, defaultValue)

LookupPointerOrAddAt(t, k, defaultValue, index) ==
    LookupPointerOrAddFrom(t, k, defaultValue, index,
                           WalkChain(t.heap, t.m_table[index + 1], k))

LookupPointerOrAddIn(t, k, defaultValue) ==
    IF t.halt # "none" THEN [t |-> t, ret |-> 0]
    ELSE LookupPointerOrAddAt(t, k, defaultValue, GetIndexForKey(t, k))

LookupPointerOrAddCall(t0, k, defaultValue) ==
    LookupPointerOrAddIn(Prepared(t0), k, defaultValue)

\* Returns true as 1, false as 0.
\* Variant of Set that overwrites without the assertion on `kind`.
SetFrom_Unasserted(t, k, v, kind, index, pN) ==
    IF pN # nullptr
    THEN [t |-> [t EXCEPT !.heap[pN].m_val = v,
                          !.contractOK = @ /\ (kind = Overwrite)],
          ret |-> 1]
    ELSE [t |-> LinkAtHead(t, index, k, v).t, ret |-> 0]

\* Variant of Set that counts the key it overwrites as a new entry.
SetFrom_CountsOverwrite(t, k, v, kind, index, pN) ==
    IF pN # nullptr
    THEN [t |-> [t EXCEPT !.heap[pN].m_val = v, !.m_tableCount = @ + 1], ret |-> 1]
    ELSE [t |-> LinkAtHead(t, index, k, v).t, ret |-> 0]

SetFrom(t, k, v, kind, index, pN) ==
    IF pN # nullptr
    THEN IF assertsOn /\ kind # Overwrite
         THEN [t |-> [t EXCEPT !.halt = "assert"], ret |-> 0]
         ELSE [t |-> [t EXCEPT !.heap[pN].m_val = v,
                               !.contractOK = @ /\ (kind = Overwrite)],
               ret |-> 1]
    ELSE [t |-> LinkAtHead(t, index, k, v).t, ret |-> 0]

SetAt(t, k, v, kind, index) ==
    SetFrom(t, k, v, kind, index, WalkChain(t.heap, t.m_table[index + 1], k))

SetIn(t, k, v, kind) ==
    IF t.halt # "none" THEN [t |-> t, ret |-> 0]
    ELSE SetAt(t, k, v, kind, GetIndexForKey(t, k))

SetCall(t0, k, v, kind) ==
    SetIn(Prepared(t0), k, v, kind)

\* Variant of Emplace that links a new node whether or not it found the key.
EmplaceFrom_Always(t, k, v, index, n) ==
    LinkAtHead(t, index, k, v)

\* Emplace(k, args...) with Value constructed from args as v.
EmplaceFrom(t, k, v, index, n) ==
    IF n = nullptr THEN LinkAtHead(t, index, k, v)
    ELSE [t |-> t, ret |-> n]

EmplaceAt(t, k, v, index) ==
    EmplaceFrom(t, k, v, index, WalkChain(t.heap, t.m_table[index + 1], k))

EmplaceIn(t, k, v) ==
    IF t.halt # "none" THEN [t |-> t, ret |-> 0]
    ELSE EmplaceAt(t, k, v, GetIndexForKey(t, k))

\* Variant of Emplace that searches first and checks growth only when it has
\* to add the key.
EmplaceCall_GrowsToAdd(t0, k, v) ==
    IF FindNode(t0, k) # nullptr THEN [t |-> t0, ret |-> FindNode(t0, k)]
    ELSE EmplaceIn(Prepared(t0), k, v)

EmplaceCall(t0, k, v) ==
    EmplaceIn(Prepared(t0), k, v)

-----------------------------------------------------------------------------
(* Remove, RemoveAll *)

\* Remove reads m_table[index] without FindNode's test of prime == 0: with no
\* bucket array the assertion of magicNumberRem divides by zero, and without
\* the assertion m_table[hash] is read through nullptr.
RemoveUndefined(t) ==
    MagicRemUndefined(t.m_tableSizeInfo) \/ t.m_table = <<>>

\* What a build can do on that undefined read: trap, run on with the bytes
\* it found, or find a null chain head and return false.
UBOutcomes ==
    {"crash", "wild", "returns"}

\* The loop of Remove; ppN is &m_table[index] (node = nullptr) or
\* &node->m_next.
RECURSIVE RemoveWalk(_, _, _, _)
RemoveWalk(h, pN, ppN, k) ==
    IF pN # nullptr /\ ~Equals(k, h[pN].m_key)
    THEN RemoveWalk(h, h[pN].m_next, [node |-> pN, index |-> ppN.index], k)
    ELSE [pN |-> pN, ppN |-> ppN]

\* *ppN = pN->m_next; m_tableCount--; Node::operator delete(pN, m_alloc);
\* Variant of the unlinking that leaves m_tableCount alone.
Unlink_KeepCount(t, pN, ppN, next) ==
    [t EXCEPT !.m_table = IF ppN.node = nullptr
                          THEN [t.m_table EXCEPT ![ppN.index + 1] = next]
                          ELSE t.m_table,
              !.heap = FreeNode(IF ppN.node = nullptr THEN t.heap
                                ELSE [t.heap EXCEPT ![ppN.node].m_next = next],
                                pN)]

\* Variant of the unlinking that cuts the chain off at the node removed.
Unlink_DropsTail(t, pN, ppN, next) ==
    [t EXCEPT !.m_table = IF ppN.node = nullptr
                          THEN [t.m_table EXCEPT ![ppN.index + 1] = nullptr]
                          ELSE t.m_table,
              !.m_tableCount = t.m_tableCount - 1,
              !.heap = FreeNode(IF ppN.node = nullptr THEN t.heap
                                ELSE [t.heap EXCEPT ![ppN.node].m_next = nullptr],
                                pN)]

Unlink(t, pN, ppN, next) ==
    [t EXCEPT !.m_table = IF ppN.node = nullptr
                          THEN [t.m_table EXCEPT ![ppN.index + 1] = next]
                          ELSE t.m_table,
              !.m_tableCount = t.m_tableCount - 1,
              !.heap = FreeNode(IF ppN.node = nullptr THEN t.heap
                                ELSE [t.heap EXCEPT ![ppN.node].m_next = next],
                                pN)]

RemoveFrom(t, w) ==
    IF w.pN # nullptr
    THEN [t |-> Unlink(t, w.pN, w.ppN, t.heap[w.pN].m_next), ret |-> 1]
    ELSE [t |-> t, ret |-> 0]

RemoveAt(t, k, index) ==
    RemoveFrom(t, RemoveWalk(t.heap, t.m_table[index + 1],
                             [node |-> nullptr, index |-> index], k))

RemoveCall(t, k) ==
    RemoveAt(t, k, GetIndexForKey(t, k))

\* for (Node* pN = m_table[i]; pN != nullptr;) { delete pN; pN = pNext; }
RECURSIVE FreeChain(_, _)
FreeChain(h, pN) ==
    IF pN = nullptr THEN h
    ELSE FreeChain(FreeNode(h, pN), h[pN].m_next)

RECURSIVE FreeBuckets(_, _, _, _)
FreeBuckets(h, table, i, size) ==
    IF i >= size THEN h
    ELSE FreeBuckets(FreeChain(h, table[i + 1]), table, i + 1, size)

\* Variant of RemoveAll that leaves m_tableSizeInfo alone.
RemoveAllCall_KeepSize(t) ==
    [t EXCEPT !.heap = FreeBuckets(t.heap, t.m_table, 0, t.m_tableSizeInfo.prime),
              !.m_table = <<>>,
              !.m_alloc = Deallocate(t.m_alloc, t.m_table),
              !.m_tableCount = 0,
              !.m_tableMax = 0]

\* Variant of RemoveAll that leaves m_tableMax alone.
RemoveAllCall_KeepMax(t) ==
    [t EXCEPT !.heap = FreeBuckets(t.heap, t.m_table, 0, t.m_tableSizeInfo.prime),
              !.m_table = <<>>,
              !.m_alloc = Deallocate(t.m_alloc, t.m_table),
              !.m_tableSizeInfo = JitPrimeInfoDefault,
              !.m_tableCount = 0]

RemoveAllCall(t) ==
    [t EXCEPT !.heap = FreeBuckets(t.heap, t.m_table, 0, t.m_tableSizeInfo.prime),
              !.m_table = <<>>,
              !.m_alloc = Deallocate(t.m_alloc, t.m_table),
              !.m_tableSizeInfo = JitPrimeInfoDefault,
              !.m_tableCount = 0,
              !.m_tableMax = 0]

GetCount ==
    m_tableCount

-----------------------------------------------------------------------------
(* NodeIterator *)

\* while ((m_index < m_tableSize) && (m_table[m_index] == nullptr)) m_index++;
RECURSIVE SkipEmpty(_, _, _)
SkipEmpty(table, index, size) ==
    IF index < size /\ table[index + 1] = nullptr
    THEN SkipEmpty(table, index + 1, size)
    ELSE index

\* if (m_index < m_tableSize) m_node = m_table[m_index]; else nullptr
IteratorAt(table, index, size) ==
    [m_node |-> IF index < size THEN table[index + 1] ELSE nullptr,
     m_index |-> index, m_tableSize |-> size]

NodeIterator(t, begin) ==
    IF begin /\ t.m_tableCount > 0
    THEN IteratorAt(t.m_table, SkipEmpty(t.m_table, 0, t.m_tableSizeInfo.prime),
                    t.m_tableSizeInfo.prime)
    ELSE [m_node |-> nullptr,
          m_index |-> IF begin THEN 0 ELSE t.m_tableSizeInfo.prime,
          m_tableSize |-> t.m_tableSizeInfo.prime]

\* Variant of NodeIterator::Next that leaves the chain after its first node.
IteratorNext_SkipChain(i, table, h) ==
    IteratorAt(table,
               SkipEmpty(table,
                         IF i.m_node # nullptr THEN i.m_index + 1 ELSE i.m_index,
                         i.m_tableSize),
               i.m_tableSize)

\* NodeIterator::Next, on the bucket array and heap the iterator points into.
IteratorNext(i, table, h) ==
    IF i.m_node # nullptr /\ h[i.m_node].m_next # nullptr
    THEN [m_node |-> h[i.m_node].m_next, m_index |-> i.m_index,
          m_tableSize |-> i.m_tableSize]
    ELSE IteratorAt(table,
                    SkipEmpty(table,
                              IF i.m_node # nullptr THEN i.m_index + 1 ELSE i.m_index,
                              i.m_tableSize),
                    i.m_tableSize)

\* operator!=
IteratorNotEqual(i, j) ==
    i.m_node # j.m_node

-----------------------------------------------------------------------------
(* The state after construction, and the callers' arguments.               *)

NoIterator ==
    [live |-> FALSE, m_node |-> nullptr, m_index |-> 0, m_tableSize |-> 0]

\* Arguments of the callers of Spec: seven keys, of which 0, 9 and 207 share
\* bucket 0 of the 9-bucket array and 0 and 207 bucket 0 of the 23-bucket one;
\* key 0 is stored with two values.
DomMain ==
    {<<AllKeys[i], 1>> : i \in 1..Len(AllKeys)} \cup {<<0, 2>>}

\* Arguments of the callers of SpecHist.
DomHist ==
    {<<0, 1>>, <<0, 2>>, <<9, 1>>, <<207, 1>>}

\* Arguments of explicit Reallocate calls: below the smallest stored size, a
\* stored size, just above one, and above the largest.
ReallocSizes ==
    {1, 9, 10, 611063768}

KeyDom ==
    {p[1] : p \in dom}

InitCommon ==
    /\ m_alloc = [arrays |-> 0]
    /\ m_table = <<>>
    /\ m_tableSizeInfo = JitPrimeInfoDefault
    /\ m_tableCount = 0
    /\ m_tableMax = 0
    /\ heap = <<>>
    /\ halt = "none"
    /\ assertsOn \in BOOLEAN
    /\ contractOK = TRUE
    /\ last = [op |-> "JitHashTable", ret |-> 0, out |-> 0, grew |-> FALSE]
    /\ it = NoIterator
    /\ visited = <<>>
    /\ shadow = [k \in KeySet |-> 0]

Init ==
    /\ InitCommon
    /\ dom = DomMain
    /\ hist = [track |-> FALSE, ever |-> {}, removedEver |-> 0,
               added |-> 0, removed |-> 0, order |-> <<>>, rehashed |-> FALSE]

InitHist ==
    /\ InitCommon
    /\ dom = DomHist
    /\ hist = [track |-> TRUE, ever |-> {}, removedEver |-> 0,
               added |-> 0, removed |-> 0, order |-> <<>>, rehashed |-> FALSE]

-----------------------------------------------------------------------------
(* The calls as actions. *)

\* A call can be made: the program runs and no range-for loop is open (the
\* table is not mutated under a live cursor).
Ready ==
    halt = "none" /\ ~it.live

Commit(t) ==
    /\ m_alloc' = t.m_alloc
    /\ m_table' = t.m_table
    /\ m_tableSizeInfo' = t.m_tableSizeInfo
    /\ m_tableCount' = t.m_tableCount
    /\ m_tableMax' = t.m_tableMax
    /\ heap' = t.heap
    /\ halt' = t.halt
    /\ contractOK' = t.contractOK

\* Ghost: the call rehashed a table that held entries.
Rehashed(h) ==
    IF h.track /\ last'.grew /\ m_tableCount > 0
    THEN [h EXCEPT !.rehashed = TRUE]
    ELSE h

\* Ghost bookkeeping of a call that stores v under k when k is not stored,
\* and also when it is if `replace`.
Stored(k, v, replace) ==
    /\ shadow' = IF halt' # "none" THEN shadow
                 ELSE IF shadow[k] = 0 \/ replace THEN [shadow EXCEPT ![k] = v]
                 ELSE shadow
    /\ hist' = Rehashed(IF halt' # "none" \/ ~hist.track \/ shadow[k] # 0 THEN hist
                        ELSE [hist EXCEPT !.ever = @ \cup {k}, !.added = @ + 1,
                                          !.order = Append(@, k)])

Returned(op, r) ==
    /\ Commit(r.t)
    /\ last' = [op |-> op, ret |-> r.ret, out |-> 0, grew |-> r.t.realloc]

LookupReturned(r) ==
    last' = [op |-> "Lookup", ret |-> r[1], out |-> r[2], grew |-> FALSE]

Lookup(k) ==
    /\ Ready
    /\ LookupReturned(LookupResult(This, k))
    /\ visited' = <<>>
    /\ UNCHANGED <<tableVars, halt, assertsOn, contractOK, it, shadow, hist, dom>>

LookupPointerOrAdd(k, defaultValue) ==
    /\ Ready
    /\ Returned("LookupPointerOrAdd", LookupPointerOrAddCall(This, k, defaultValue))
    /\ Stored(k, defaultValue, FALSE)
    /\ visited' = <<>>
    /\ UNCHANGED <<assertsOn, it, dom>>

Set(k, v, kind) ==
    /\ Ready
    /\ Returned(IF kind = Overwrite THEN "SetOverwrite" ELSE "Set",
                SetCall(This, k, v, kind))
    /\ Stored(k, v, TRUE)
    /\ visited' = <<>>
    /\ UNCHANGED <<assertsOn, it, dom>>

Emplace(k, v) ==
    /\ Ready
    /\ Returned("Emplace", EmplaceCall(This, k, v))
    /\ Stored(k, v, FALSE)
    /\ visited' = <<>>
    /\ UNCHANGED <<assertsOn, it, dom>>

Remove(k) ==
    /\ Ready
    /\ hist.track /\ shadow[k] # 0 => hist.removedEver < MaxRemoves
    /\ IF RemoveUndefined(This)
       THEN \E o \in UBOutcomes :
               /\ halt' = IF o = "returns" THEN "none" ELSE o
               /\ last' = [op |-> "Remove", ret |-> 0, out |-> 0, grew |-> FALSE]
               /\ UNCHANGED <<tableVars, contractOK, shadow, hist>>
       ELSE /\ Returned("Remove", RemoveCall(This, k))
            /\ shadow' = [shadow EXCEPT ![k] = 0]
            /\ hist' = IF ~hist.track \/ shadow[k] = 0 THEN hist
                       ELSE [hist EXCEPT !.removedEver = @ + 1,
                                         !.removed = @ + 1,
                                         !.order = SelectSeq(@, LAMBDA x : x # k)]
    /\ visited' = <<>>
    /\ UNCHANGED <<assertsOn, it, dom>>

RemoveAll ==
    /\ Ready
    /\ Commit(RemoveAllCall(This))
    /\ last' = [op |-> "RemoveAll", ret |-> 0, out |-> 0, grew |-> FALSE]
    /\ shadow' = [k \in KeySet |-> 0]
    /\ hist' = IF hist.track
               THEN [hist EXCEPT !.added = 0, !.removed = 0, !.order = <<>>,
                                 !.rehashed = FALSE]
               ELSE hist
    /\ visited' = <<>>
    /\ UNCHANGED <<assertsOn, it, dom>>

\* ~JitHashTable() { RemoveAll(); }: the object is gone after it.
Destroyed(t) ==
    [t EXCEPT !.halt = "destroyed"]

Destroy ==
    /\ Ready
    /\ Commit(Destroyed(RemoveAllCall(This)))
    /\ last' = [op |-> "~JitHashTable", ret |-> 0, out |-> 0, grew |-> FALSE]
    /\ shadow' = [k \in KeySet |-> 0]
    /\ hist' = IF hist.track
               THEN [hist EXCEPT !.added = 0, !.removed = 0, !.order = <<>>,
                                 !.rehashed = FALSE]
               ELSE hist
    /\ visited' = <<>>
    /\ UNCHANGED <<assertsOn, it, dom>>

ReallocateTo(newTableSize) ==
    /\ Ready
    /\ Returned("Reallocate", [t |-> Reallocate(This, newTableSize), ret |-> 0])
    /\ hist' = Rehashed(hist)
    /\ visited' = <<>>
    /\ UNCHANGED <<assertsOn, it, shadow, dom>>

Live(i) ==
    [live |-> TRUE, m_node |-> i.m_node, m_index |-> i.m_index,
     m_tableSize |-> i.m_tableSize]

\* for (auto x : KeyValueIteration(&table)): begin(), then while it != end()
\* the body sees *it and ++it runs.
LoopBegin ==
    /\ Ready
    /\ it' = Live(NodeIterator(This, TRUE))
    /\ visited' = <<>>
    /\ last' = [op |-> "begin", ret |-> 0, out |-> 0, grew |-> FALSE]
    /\ UNCHANGED <<tableVars, halt, assertsOn, contractOK, shadow, hist, dom>>

LoopStep ==
    /\ halt = "none" /\ it.live
    /\ IteratorNotEqual(it, NodeIterator(This, FALSE))
    /\ visited' = Append(visited, it.m_node)
    /\ it' = Live(IteratorNext(it, m_table, heap))
    /\ UNCHANGED <<tableVars, halt, assertsOn, contractOK, last, shadow, hist, dom>>

LoopEnd ==
    /\ halt = "none" /\ it.live
    /\ ~IteratorNotEqual(it, NodeIterator(This, FALSE))
    /\ it' = NoIterator
    /\ last' = [op |-> "end", ret |-> Len(visited), out |-> 0, grew |-> FALSE]
    /\ UNCHANGED <<tableVars, halt, assertsOn, contractOK, visited, shadow, hist, dom>>

Next ==
    \/ \E k \in KeyDom : Lookup(k)
    \/ \E p \in dom : LookupPointerOrAdd(p[1], p[2])
    \/ \E p \in dom : \E kind \in {None, Overwrite} : Set(p[1], p[2], kind)
    \/ \E p \in dom : Emplace(p[1], p[2])
    \/ \E k \in KeyDom : Remove(k)
    \/ RemoveAll
    \/ \E n \in ReallocSizes : ReallocateTo(n)
    \/ Destroy
    \/ LoopBegin
    \/ LoopStep
    \/ LoopEnd

Spec ==
    Init /\ [][Next]_vars

SpecHist ==
    InitHist /\ [][Next]_vars

\* A caller that only inserts keys that are not stored, from construction on.
NextInserts ==
    \/ \E p \in dom : shadow[p[1]] = 0 /\ LookupPointerOrAdd(p[1], p[2])
    \/ \E p \in dom : \E kind \in {None, Overwrite} :
          shadow[p[1]] = 0 /\ Set(p[1], p[2], kind)
    \/ \E p \in dom : shadow[p[1]] = 0 /\ Emplace(p[1], p[2])

SpecInserts ==
    Init /\ [][NextInserts]_vars

\* The size computation of Grow (a private member, run for a count of its
\* own here): last.out is m_tableCount and last.ret the newSize handed to
\* Reallocate.
GrowOf(count) ==
    /\ Ready
    /\ last.op \in {"JitHashTable", "Grow"}
    /\ last' = [op |-> "Grow", ret |-> GrowSize(count), out |-> count, grew |-> FALSE]
    /\ UNCHANGED <<tableVars, halt, assertsOn, contractOK, it, visited, shadow,
                   hist, dom>>

\* NextPrime (a static member, called for a number of its own here): last.out
\* is the number and last.ret the descriptor returned; Behavior::NoMemory()
\* does not return.
NextPrimeOf(number) ==
    /\ Ready
    /\ halt' = IF NextPrimeNoMemory(number) THEN "nomem" ELSE halt
    /\ last' = [op |-> "NextPrime",
                ret |-> IF NextPrimeNoMemory(number) THEN 0 ELSE NextPrime(number),
                out |-> number, grew |-> FALSE]
    /\ visited' = <<>>
    /\ UNCHANGED <<tableVars, assertsOn, contractOK, it, shadow, hist, dom>>

\* The arguments of NextPrime: the numbers around every stored size, and more
\* than the largest.
PrimeArgs ==
    {0, 2147483647}
        \cup {jitPrimeInfo[i].prime - 1 : i \in 1..Len(jitPrimeInfo)}
        \cup {jitPrimeInfo[i].prime : i \in 1..Len(jitPrimeInfo)}
        \cup {jitPrimeInfo[i].prime + 1 : i \in 1..Len(jitPrimeInfo)}

DomPrime ==
    {<<0, 1>>, <<9, 1>>}

InitPrime ==
    /\ InitCommon
    /\ dom = DomPrime
    /\ hist = [track |-> FALSE, ever |-> {}, removedEver |-> 0,
               added |-> 0, removed |-> 0, order |-> <<>>, rehashed |-> FALSE]

NextPrimes ==
    \/ \E number \in PrimeArgs : NextPrimeOf(number)
    \/ \E p \in dom : Emplace(p[1], p[2])
    \/ \E n \in ReallocSizes : ReallocateTo(n)

SpecPrime ==
    InitPrime /\ [][NextPrimes]_vars

\* magicNumberRem of table entry i (a member of JitPrimeInfo, called for a
\* numerator of its own here): last.out is <<i, numerator>> and last.ret the
\* result; the assertion stops a build that has it when the result is not
\* numerator % prime.
MagicNumberRemOf(i, numerator) ==
    /\ Ready
    /\ halt' = IF assertsOn /\ magicNumberRemWide(jitPrimeInfo[i], numerator)
                                  # Remainder(numerator, jitPrimeInfo[i].prime)
               THEN "assert"
               ELSE halt
    /\ last' = [op |-> "magicNumberRem",
                ret |-> magicNumberRemWide(jitPrimeInfo[i], numerator),
                out |-> <<i, numerator>>, grew |-> FALSE]
    /\ UNCHANGED <<tableVars, assertsOn, contractOK, it, visited, shadow, hist, dom>>

\* The largest 32-bit word that leaves the remainder p - 1.
LargestBelowMultiple(p) ==
    Sub32(<<65535, 65535>>, Word((RemainderFrom(<<65535, 65535>>, p, 31, 0) + 1) % p))

\* The numerators tried with a prime p: the hash codes of the keys, the
\* numbers around p and around twice p, the ends of the range of `unsigned`
\* and of `int`, and the numerators at which an inexact magic number shows
\* first.
Numerators(p) ==
    {Word(GetHashCode(AllKeys[j])) : j \in 1..Len(AllKeys)}
        \cup {Word(0), Word(p - 1), Word(p), Word(p + 1), Word((2 * p) - 1), Word(2 * p)}
        \cup {Word(2147483647), <<32768, 0>>, <<65535, 65535>>, <<65535, 0>>, <<43690, 21845>>}
        \cup {LargestBelowMultiple(p), Sub32(LargestBelowMultiple(p), Word(p)),
              Sub32(LargestBelowMultiple(p), Word(p - 1)),
              Sub32(LargestBelowMultiple(p), Word(1))}

NextMagic ==
    \E i \in 1..Len(jitPrimeInfo) :
        \E numerator \in Numerators(jitPrimeInfo[i].prime) :
            MagicNumberRemOf(i, numerator)

SpecMagic ==
    Init /\ [][NextMagic]_vars

\* operator[](k): last.ret is the address of the value referred to (nullptr
\* when the key was not found) and last.out the key.
OperatorIndex(k) ==
    /\ Ready
    /\ \E o \in UBOutcomes :
          /\ Commit(OperatorIndexCall(This, k, o).t)
          /\ last' = [op |-> "operator[]", ret |-> OperatorIndexCall(This, k, o).ret,
                      out |-> k, grew |-> FALSE]
    /\ visited' = <<>>
    /\ UNCHANGED <<assertsOn, it, shadow, hist, dom>>

NextIndex ==
    \/ \E k \in KeyDom : OperatorIndex(k)
    \/ \E p \in dom : Emplace(p[1], p[2])
    \/ \E k \in KeyDom : Remove(k)
    \/ RemoveAll

SpecIndex ==
    Init /\ [][NextIndex]_vars

\* The threshold Reallocate sets for a table of the size `info`.
ThresholdOf(info) ==
    Install(This, info, [table |-> <<>>, heap |-> <<>>]).m_tableMax

\* Grow for a count that leads to NoMemory: its own overflow test, or
\* NextPrime in Reallocate.
GrowNoMemory(count) ==
    GrowSize(count) < count \/ NextPrimeNoMemory(GrowSize(count))

\* CheckGrowth on a table of the size `info` (JitPrimeInfoDefault: never
\* allocated) that holds as many entries as its threshold, by sizes only
\* (the bucket arrays of the large sizes are not built): last.out is
\* <<size, count>> at entry and last.ret <<size, threshold>> after Grow.
GrowthAt(info, count) ==
    /\ Ready
    /\ last.op \in {"JitHashTable", "CheckGrowth"}
    /\ halt' = IF GrowNoMemory(count) THEN "nomem" ELSE halt
    /\ last' = [op |-> "CheckGrowth",
                ret |-> IF GrowNoMemory(count) THEN <<0, 0>>
                        ELSE <<NextPrime(GrowSize(count)).prime,
                               ThresholdOf(NextPrime(GrowSize(count)))>>,
                out |-> <<info.prime, count>>,
                grew |-> ~GrowNoMemory(count)]
    /\ UNCHANGED <<tableVars, assertsOn, contractOK, it, visited, shadow, hist, dom>>

GrowthOf(i) ==
    IF i = 0 THEN GrowthAt(JitPrimeInfoDefault, 0)
    ELSE GrowthAt(jitPrimeInfo[i], ThresholdOf(jitPrimeInfo[i]))

NextGrowth ==
    \/ \E i \in 0..Len(jitPrimeInfo) : GrowthOf(i)
    \/ \E p \in dom : LookupPointerOrAdd(p[1], p[2])
    \/ \E p \in dom : Set(p[1], p[2], Overwrite)
    \/ \E p \in dom : Emplace(p[1], p[2])

SpecGrowth ==
    Init /\ [][NextGrowth]_vars

NextGrow ==
    \E count \in 0..MaxGrowCount : GrowOf(count)

SpecGrow ==
    Init /\ [][NextGrow]_vars

-----------------------------------------------------------------------------
(* The table as its callers see it, read off the bucket array and the heap  *)
(* without the hash function.                                               *)

\* The nodes of the chain that starts at pN, head first.
RECURSIVE ChainSeq(_, _, _)
ChainSeq(h, pN, fuel) ==
    IF pN = nullptr \/ fuel = 0 THEN <<>>
    ELSE <<pN>> \o ChainSeq(h, h[pN].m_next, fuel - 1)

\* The nodes of buckets i, i + 1, ... in this order.
RECURSIVE TableSeq(_, _)
TableSeq(t, i) ==
    IF i >= Len(t.m_table) THEN <<>>
    ELSE ChainSeq(t.heap, t.m_table[i + 1], Cardinality(Addrs) + 1) \o TableSeq(t, i + 1)

Range(s) ==
    {s[j] : j \in 1..Len(s)}

NodesOf(t) ==
    Range(TableSeq(t, 0))

PairsOf(t) ==
    {<<t.heap[a].m_key, t.heap[a].m_val>> : a \in NodesOf(t)}

KeysOf(h, s) ==
    [j \in 1..Len(s) |-> h[s[j]].m_key]

StoredKeys ==
    {k \in KeySet : shadow[k] # 0}

\* The node that holds k, when k is stored.
NodeOf(h, k) ==
    CHOOSE a \in DOMAIN h : h[a].m_key = k

-----------------------------------------------------------------------------
(* C1 *)

\* C1: after any sequence of Set, LookupPointerOrAdd, Emplace, Remove,
\* Reallocate and automatic growth, Lookup(k) returns true with the value most
\* recently stored for k when k was inserted and not removed since, and false
\* otherwise.
C1_LookupAgreesWithStores ==
    \A k \in KeySet :
        LookupResult(This, k) = IF shadow[k] = 0 THEN <<0, 0>> ELSE <<1, shadow[k]>>

\* A Lookup found the overwritten value of key 0 in a table that has grown to
\* 23 buckets.
C1_Witness ==
    /\ last.op = "Lookup" /\ last.ret = 1 /\ last.out = 2
    /\ m_tableSizeInfo.prime = 23 /\ m_tableCount = 7
    /\ shadow[0] = 2

-----------------------------------------------------------------------------
(* C2 *)

\* C2 as stated: GetCount() is the number of distinct keys ever inserted minus
\* the number of successful Remove calls, also across RemoveAll, after which it
\* is 0.
C2_Original ==
    hist.track =>
        /\ GetCount = Cardinality(hist.ever) - hist.removedEver
        /\ last.op = "RemoveAll" => GetCount = 0

\* C2, amended: GetCount() is the number of insertions that added a key which
\* was not stored at the time minus the number of Remove calls that removed a
\* key, both counted since construction or the last RemoveAll; it is 0 right
\* after RemoveAll.
C2_CountOfStoredKeys ==
    hist.track =>
        /\ GetCount = hist.added - hist.removed
        /\ GetCount = Cardinality(StoredKeys)
        /\ last.op = "RemoveAll" => GetCount = 0

\* A key was inserted again after its removal and the table is not empty.
C2_Witness ==
    /\ hist.track
    /\ hist.removed >= 1
    /\ hist.added > Cardinality(hist.ever)
    /\ GetCount >= 2

-----------------------------------------------------------------------------
(* C3 *)

\* C3 as stated: Remove(k) of a key that is not stored returns false and
\* leaves the table as it was, also on a table whose bucket array has not been
\* allocated.
C3_RemoveAbsentKey ==
    [][\A k \in KeyDom :
          (Remove(k) /\ shadow[k] = 0) =>
              (halt' = "none" /\ last'.ret = 0 /\ UNCHANGED tableVars)]_vars

-----------------------------------------------------------------------------
(* C4 *)

\* The object t, got from `this` by a rehash, holds the nodes and entries of
\* `this`.
RehashKeepsPairs(t) ==
    t.halt = "none" =>
        /\ PairsOf(t) = PairsOf(This)
        /\ NodesOf(t) = NodesOf(This)
        /\ t.m_tableCount = m_tableCount

\* C4: a growth or rehash step (Reallocate, called directly or by Grow from
\* CheckGrowth) that completes leaves the set of (key, value) pairs and
\* GetCount() as they were.
C4_RehashKeepsPairs ==
    /\ Ready =>
          /\ \A n \in ReallocSizes \cup {GrowSize(m_tableCount)} :
                RehashKeepsPairs(Reallocate(This, n))
          /\ RehashKeepsPairs(CheckGrowth(This))
    /\ PairsOf(This) = {<<k, shadow[k]>> : k \in StoredKeys}
    /\ Cardinality(NodesOf(This)) = Cardinality(StoredKeys)

\* An insertion has grown the table from 9 to 23 buckets with six entries in
\* it, and stored the seventh.
C4_Witness ==
    /\ last.op = "Emplace" /\ last.grew
    /\ m_tableSizeInfo.prime = 23 /\ m_tableCount = 7
    /\ halt = "none"

-----------------------------------------------------------------------------
(* C5 *)

-----------------------------------------------------------------------------
(* C6 *)

-----------------------------------------------------------------------------
(* C7 *)

\* C7: with no mutation during the loop, an iteration from begin to end
\* yields every stored key exactly once and none other, in GetCount()
\* iterations; on an empty table begin equals end and the body never runs.
C7_IterationVisitsEachKeyOnce ==
    /\ it.live =>
          /\ Len(visited) <= GetCount
          /\ Cardinality(Range(visited)) = Len(visited)
          /\ Range(visited) \subseteq DOMAIN heap
          /\ GetCount = 0 => ~IteratorNotEqual(it, NodeIterator(This, FALSE))
    /\ last.op = "end" =>
          /\ Len(visited) = GetCount
          /\ last.ret = GetCount
          /\ Cardinality(Range(KeysOf(heap, visited))) = Len(visited)
          /\ Range(KeysOf(heap, visited)) = StoredKeys

\* A loop over a table of seven entries in 23 buckets has ended.
C7_Witness ==
    /\ last.op = "end" /\ Len(visited) = 7
    /\ m_tableSizeInfo.prime = 23

-----------------------------------------------------------------------------
(* C8 *)

\* The stored keys of bucket i, the most recently inserted first.
InsertedLastFirst(i) ==
    SelectSeq([j \in 1..Len(hist.order) |-> hist.order[Len(hist.order) + 1 - j]],
              LAMBDA k : GetHashCode(k) % m_tableSizeInfo.prime = i)

RECURSIVE BucketsAscending(_)
BucketsAscending(i) ==
    IF i >= m_tableSizeInfo.prime THEN <<>>
    ELSE InsertedLastFirst(i) \o BucketsAscending(i + 1)

\* C8 as stated: in every reachable state, also after growth or rehash steps,
\* iteration visits the buckets in ascending index order and the entries of a
\* bucket most recently inserted first.
C8_Original ==
    hist.track /\ last.op = "end" =>
        KeysOf(heap, visited) = BucketsAscending(0)

\* C8, amended: in every reachable state in which no growth or rehash step
\* has run on a non-empty table since construction or the last RemoveAll,
\* iteration visits the buckets in ascending index order and the entries of a
\* bucket most recently inserted first.
C8_OrderWithoutRehash ==
    hist.track /\ ~hist.rehashed /\ last.op = "end" =>
        KeysOf(heap, visited) = BucketsAscending(0)

\* A loop has ended over three entries of one bucket that were never rehashed.
C8_Witness ==
    /\ hist.track /\ ~hist.rehashed /\ last.op = "end"
    /\ Len(visited) = 3
    /\ m_tableSizeInfo.prime = 9

-----------------------------------------------------------------------------
(* C9 *)

\* The call r of LookupPointerOrAdd on the stored key k returned the node of
\* k and changed neither a value nor the count.
SecondLookupPointerOrAdd(k, r) ==
    /\ r.t.halt = "none"
    /\ r.ret = NodeOf(heap, k)
    /\ r.t.heap[r.ret].m_key = k
    /\ r.t.heap[r.ret].m_val = shadow[k]
    /\ r.t.m_tableCount = m_tableCount
    /\ PairsOf(r.t) = PairsOf(This)

\* C9: LookupPointerOrAdd(k, d2) on a key that an earlier
\* LookupPointerOrAdd(k, d1) stored or found, with no Remove of k between and
\* growth allowed, returns the same node as that call did, and changes
\* neither the value of k nor GetCount(): a call of LookupPointerOrAdd that
\* returns gives the node that holds its key, and a call on a stored key
\* returns that node and leaves the entries and the count as they were.
C9_SecondLookupPointerOrAdd ==
    /\ Ready =>
          \A k \in StoredKeys : \A d \in 1..2 :
              SecondLookupPointerOrAdd(k, LookupPointerOrAddCall(This, k, d))
    /\ last.op = "LookupPointerOrAdd" /\ halt = "none" =>
          /\ last.ret \in NodesOf(This)
          /\ last.ret = NodeOf(heap, heap[last.ret].m_key)
          /\ heap[last.ret].m_val = shadow[heap[last.ret].m_key]

\* A LookupPointerOrAdd of a stored key has grown the table from 9 to 23
\* buckets and has found the key.
C9_Witness ==
    /\ last.op = "LookupPointerOrAdd" /\ last.grew
    /\ m_tableSizeInfo.prime = 23 /\ m_tableCount = 6
    /\ halt = "none"

-----------------------------------------------------------------------------
(* C10 *)

\* Set(k, v, None) stopped at its assertion with the entries as they were.
SetStopped(r) ==
    /\ r.t.halt = "assert"
    /\ PairsOf(r.t) = PairsOf(This)

\* Set(k, v, None) stored v under k and returned true.
SetOverwrote(k, v, r) ==
    /\ r.t.halt = "none"
    /\ r.ret = 1
    /\ PairsOf(r.t) = (PairsOf(This) \ {<<k, shadow[k]>>}) \cup {<<k, v>>}

\* C10 as stated: Set(k, v, None) on a stored key reaches a failing assertion
\* before any write: the stored value is not overwritten and the call does not
\* return.
C10_Original ==
    Ready =>
        \A k \in StoredKeys : \A v \in 1..2 :
            SetStopped(SetCall(This, k, v, None))

\* C10, amended: in a build that checks assertions, Set(k, v, None) on a
\* stored key reaches a failing assertion before any write: the stored value
\* is not overwritten and the call does not return; in a build that compiles
\* assertions out the call stores v and returns true.
C10_SetNoneOnStoredKey ==
    Ready =>
        \A k \in StoredKeys : \A v \in 1..2 :
            IF assertsOn
            THEN SetStopped(SetCall(This, k, v, None))
            ELSE SetOverwrote(k, v, SetCall(This, k, v, None))

\* A Set has stopped at its assertion on a table that holds entries.
C10_Witness ==
    /\ assertsOn /\ halt = "assert" /\ last.op = "Set"
    /\ m_tableCount >= 1

-----------------------------------------------------------------------------
(* C11 *)

-----------------------------------------------------------------------------
(* C12 *)

\* The smallest stored size that is at least n, found without NextPrime.
SmallestStoredPrime(n) ==
    CHOOSE p \in {jitPrimeInfo[i].prime : i \in 1..Len(jitPrimeInfo)} :
        /\ p >= n
        /\ \A i \in 1..Len(jitPrimeInfo) :
              jitPrimeInfo[i].prime >= n => jitPrimeInfo[i].prime >= p

AtLeastMinimum(n) ==
    IF n < 7 THEN 7 ELSE n

\* C12 as stated: the size Grow requests is
\* floor(count * 3 * 4 / (2 * 3)), not less than the minimum allocation; for
\* count = 5 it is 10; the new length is the smallest stored size that is at
\* least the request.
C12_Original ==
    last.op = "Grow" =>
        /\ last.ret = AtLeastMinimum((last.out * 3 * 4) \div (2 * 3))
        /\ last.out = 5 => last.ret = 10
        /\ NextPrime(last.ret).prime = SmallestStoredPrime(last.ret)

\* C12, amended: the size Grow requests is
\* floor(floor(count * 3 / 2) * 4 / 3), each division truncating in its
\* turn, not less than the minimum allocation; for count = 5 it is 9; the new
\* length is the smallest stored size that is at least the request.
C12_GrowRequestTruncatesTwice ==
    last.op = "Grow" =>
        /\ last.ret = AtLeastMinimum((((last.out * 3) \div 2) * 4) \div 3)
        /\ last.out = 5 => last.ret = 9
        /\ NextPrime(last.ret).prime = SmallestStoredPrime(last.ret)

\* The size computation has run for count = 5.
C12_Witness ==
    last.op = "Grow" /\ last.out = 5 /\ last.ret = 9

-----------------------------------------------------------------------------
(* C13 *)

\* The object is as the constructor leaves it: no bucket array, the default
\* size descriptor, no entry, threshold 0, and no node.
IsConstructed(t) ==
    /\ t.m_table = <<>>
    /\ t.m_tableSizeInfo = JitPrimeInfoDefault
    /\ t.m_tableSizeInfo.prime = 0
    /\ t.m_tableCount = 0
    /\ t.m_tableMax = 0
    /\ DOMAIN t.heap = {}

\* The insertion r of <<k, v>> allocated a bucket array and stored the entry.
InsertedIntoNew(k, v, r) ==
    /\ r.t.halt = "none"
    /\ r.t.realloc
    /\ r.t.m_table # <<>>
    /\ r.t.m_tableSizeInfo = NextPrime(s_minimum_allocation)
    /\ r.t.m_tableCount = 1
    /\ PairsOf(r.t) = {<<k, v>>}
    /\ LookupResult(r.t, k) = <<1, v>>

\* C13: RemoveAll, called in any reachable state, leaves the table as the
\* constructor does (no bucket array, prime 0, count 0, threshold 0), and an
\* insertion after it allocates a bucket array and stores its entry as on a
\* new table.
C13_RemoveAllResets ==
    /\ Ready => IsConstructed(RemoveAllCall(This))
    /\ last.op \in {"RemoveAll", "JitHashTable"} /\ Ready =>
          /\ IsConstructed(This)
          /\ \A p \in dom :
                /\ InsertedIntoNew(p[1], p[2], LookupPointerOrAddCall(This, p[1], p[2]))
                /\ InsertedIntoNew(p[1], p[2], EmplaceCall(This, p[1], p[2]))
                /\ InsertedIntoNew(p[1], p[2], SetCall(This, p[1], p[2], None))
                /\ InsertedIntoNew(p[1], p[2], SetCall(This, p[1], p[2], Overwrite))

\* RemoveAll has run on a table into which three keys were inserted and from
\* which none was removed.
C13_Witness ==
    /\ last.op = "RemoveAll"
    /\ hist.track /\ Cardinality(hist.ever) = 3 /\ hist.removedEver = 0
    /\ m_table = <<>>

-----------------------------------------------------------------------------
(* C14 *)

\* C14: in every reachable state the nodes allocated and not freed are the
\* nodes reachable from the bucket array, each reachable once (so that Remove
\* and RemoveAll free each node once), at most one bucket array is out, the one
\* m_table points to, and after RemoveAll or the destructor no node and no
\* bucket array is allocated.
C14_AllocationAccounting ==
    /\ DOMAIN heap = NodesOf(This)
    /\ Len(TableSeq(This, 0)) = Cardinality(NodesOf(This))
    /\ m_alloc.arrays = IF m_table = <<>> THEN 0 ELSE 1
    /\ last.op \in {"RemoveAll", "~JitHashTable"} =>
          DOMAIN heap = {} /\ m_alloc.arrays = 0 /\ m_table = <<>>
    /\ Ready =>
          \A k \in StoredKeys :
              /\ DOMAIN RemoveCall(This, k).t.heap = DOMAIN heap \ {NodeOf(heap, k)}
              /\ NodesOf(RemoveCall(This, k).t) = NodesOf(This) \ {NodeOf(heap, k)}
              /\ RemoveCall(This, k).t.m_alloc = m_alloc

\* A Remove has freed a node of a table whose bucket array was replaced by
\* growth.
C14_Witness ==
    /\ last.op = "Remove" /\ last.ret = 1
    /\ m_tableSizeInfo.prime = 23 /\ m_tableCount = 6
    /\ Cardinality(DOMAIN heap) = 6

-----------------------------------------------------------------------------
(* C15 *)

\* C15: in every reachable state with a bucket array, the length of the
\* array is m_tableSizeInfo.prime and m_tableSizeInfo is an entry of the
\* static prime table; there is a bucket array exactly when that length is
\* not 0, and without one the count and the threshold are 0.
C15_LengthIsStoredPrime ==
    /\ m_table # <<>> =>
          /\ Len(m_table) = m_tableSizeInfo.prime
          /\ \E i \in 1..Len(jitPrimeInfo) : jitPrimeInfo[i] = m_tableSizeInfo
    /\ m_table = <<>> <=> m_tableSizeInfo.prime = 0
    /\ m_tableSizeInfo.prime = 0 => m_tableCount = 0 /\ m_tableMax = 0

\* An explicit Reallocate has given a table that holds entries 23 buckets.
C15_Witness ==
    /\ last.op = "Reallocate" /\ last.grew
    /\ m_tableSizeInfo.prime = 23 /\ Len(m_table) = 23
    /\ m_tableCount >= 1

-----------------------------------------------------------------------------
(* C16 *)

LargestStoredPrime ==
    jitPrimeInfo[Len(jitPrimeInfo)].prime

\* Reallocate(n) stopped in NoMemory with the object as it was.
StoppedUnchanged(t) ==
    /\ t.halt = "nomem"
    /\ t.m_table = m_table
    /\ t.m_tableSizeInfo = m_tableSizeInfo
    /\ t.m_tableCount = m_tableCount
    /\ t.m_tableMax = m_tableMax
    /\ t.heap = heap
    /\ t.m_alloc = m_alloc
    /\ ~t.realloc

\* C16: the static prime table ascends; NextPrime(n) returns the smallest
\* entry of it whose prime is at least n when n is not above the largest
\* stored prime; when it is, NextPrime calls NoMemory and does not return, and
\* Reallocate(n) leaves the bucket array, size, count and threshold as they
\* were.
C16_NextPrime ==
    /\ \A i \in 1..(Len(jitPrimeInfo) - 1) :
          jitPrimeInfo[i].prime < jitPrimeInfo[i + 1].prime
    /\ last.op = "NextPrime" =>
          IF last.out <= LargestStoredPrime
          THEN /\ halt = "none"
               /\ \E i \in 1..Len(jitPrimeInfo) : jitPrimeInfo[i] = last.ret
               /\ last.ret.prime = SmallestStoredPrime(last.out)
          ELSE halt = "nomem" /\ last.ret = 0
    /\ Ready =>
          \A n \in ReallocSizes \cup PrimeArgs :
              n > LargestStoredPrime => StoppedUnchanged(Reallocate(This, n))
    /\ last.op = "Reallocate" /\ halt = "nomem" => ~last.grew

\* Reallocate has stopped in NoMemory on a table of two entries.
C16_Witness ==
    /\ last.op = "Reallocate" /\ halt = "nomem"
    /\ m_tableCount = 2 /\ m_tableSizeInfo.prime = 9

-----------------------------------------------------------------------------
(* C17 *)

-----------------------------------------------------------------------------
(* C18 *)

\* operator[] returned a reference to the value stored under k and left the
\* table as it was.
IndexReferred(k, r) ==
    /\ r.t = This
    /\ r.ret # nullptr
    /\ heap[r.ret].m_key = k /\ heap[r.ret].m_val = shadow[k]

\* operator[] stopped at its assertion and left the table as it was.
IndexStopped(r) ==
    /\ r.t = [This EXCEPT !.halt = "assert"]
    /\ r.ret = nullptr

\* C18 as stated: operator[](k) returns a reference to the stored value when
\* k is stored; when it is not (also on a table never allocated) it reaches the
\* failing assertion and returns no reference; the table is not modified in
\* either case.
C18_Original ==
    Ready =>
        \A k \in KeyDom : \A o \in UBOutcomes :
            IF shadow[k] # 0
            THEN IndexReferred(k, OperatorIndexCall(This, k, o))
            ELSE IndexStopped(OperatorIndexCall(This, k, o))

\* C18, amended: operator[](k) returns a reference to the stored value when k
\* is stored; when it is not (also on a table never allocated), in a build
\* that checks assertions, it reaches the failing assertion and returns no
\* reference; the table is not modified in either case.
C18_IndexOfKey ==
    /\ Ready =>
          \A k \in KeyDom : \A o \in UBOutcomes :
              IF shadow[k] # 0
              THEN IndexReferred(k, OperatorIndexCall(This, k, o))
              ELSE assertsOn => IndexStopped(OperatorIndexCall(This, k, o))
    /\ last.op = "operator[]" /\ assertsOn =>
          IF last.ret # nullptr
          THEN halt = "none" /\ shadow[last.out] # 0
          ELSE halt = "assert" /\ shadow[last.out] = 0

\* operator[] has stopped at its assertion for a key that is not stored in a
\* table that holds two others.
C18_Witness ==
    /\ last.op = "operator[]" /\ assertsOn /\ halt = "assert"
    /\ shadow[last.out] = 0
    /\ m_tableCount = 2 /\ Cardinality(StoredKeys) = 2

-----------------------------------------------------------------------------
(* C19 *)

\* The nodes of the chain of bucket b (counted from 1).
ChainOf(b) ==
    Range(ChainSeq(heap, m_table[b], Cardinality(Addrs) + 1))

\* C19: in every reachable state the length of the bucket array is the
\* current prime, every node of the chain of bucket i has a key whose hash
\* code modulo that length is i, and every stored node is in a chain; so also
\* after automatic growth and after Reallocate.
C19_NodesInOwnBucket ==
    /\ m_tableSizeInfo.prime = Len(m_table)
    /\ \A b \in 1..Len(m_table) :
          \A a \in ChainOf(b) : GetHashCode(heap[a].m_key) % Len(m_table) = b - 1
    /\ DOMAIN heap = NodesOf(This)
    /\ \A k \in StoredKeys : \E a \in NodesOf(This) : heap[a].m_key = k

\* A table of seven keys and 23 buckets has just been reallocated, and one of
\* its nodes lies in a bucket that a table of 9 buckets does not have.
C19_Witness ==
    /\ last.op = "Reallocate" /\ last.grew /\ halt = "none"
    /\ m_tableSizeInfo.prime = 23 /\ m_tableCount = 7
    /\ shadow[0] # 0 /\ shadow[9] # 0 /\ shadow[207] # 0
    /\ \E b \in 1..23 : ChainOf(b) # {} /\ b - 1 >= 9

-----------------------------------------------------------------------------
(* C20 *)

\* C20: in every reachable state no two nodes hold equal keys; each stored key
\* is in exactly one node; no node is met twice on the way through the
\* buckets and their chains (each is reachable from one bucket only and no
\* chain runs in a circle); the number of reachable nodes is GetCount().
C20_OneNodePerKey ==
    /\ \A a \in NodesOf(This) : \A b \in NodesOf(This) :
          heap[a].m_key = heap[b].m_key => a = b
    /\ \A k \in StoredKeys :
          Cardinality({a \in NodesOf(This) : heap[a].m_key = k}) = 1
    /\ \A a \in NodesOf(This) : heap[a].m_key \in StoredKeys
    /\ Len(TableSeq(This, 0)) = Cardinality(NodesOf(This))
    /\ \A b \in 1..Len(m_table) :
          Len(ChainSeq(heap, m_table[b], Cardinality(Addrs) + 1)) <= Cardinality(Addrs)
    /\ Cardinality(NodesOf(This)) = GetCount

\* Emplace and Set were called with a key that was stored, in a table of
\* seven keys of which three share a bucket.
C20_Witness ==
    /\ last.op \in {"Emplace", "SetOverwrite"} /\ last.ret # 0 /\ ~last.grew
    /\ halt = "none"
    /\ GetCount = 7 /\ Cardinality(StoredKeys) = 7
    /\ \E b \in 1..Len(m_table) : Cardinality(ChainOf(b)) >= 2

-----------------------------------------------------------------------------
(* C21 *)

\* The keys in the nodes of the table t.
TableKeys(t) ==
    {p[1] : p \in PairsOf(t)}

\* The head of the chain of k's bucket in t, by the ordinary modulo.
HeadOf(t, k) ==
    t.m_table[(GetHashCode(k) % Len(t.m_table)) + 1]

\* Set(k, v, Overwrite) on `this` returned r.ret and left the object r.t.
SetOverwriteEffect(k, v, r) ==
    /\ r.t.halt = "none"
    /\ r.ret = (IF k \in TableKeys(This) THEN 1 ELSE 0)
    /\ {p \in PairsOf(r.t) : p[1] # k} = {p \in PairsOf(This) : p[1] # k}
    /\ {p \in PairsOf(r.t) : p[1] = k} = {<<k, v>>}
    /\ IF r.ret = 1
       THEN /\ r.t.m_tableCount = m_tableCount
            /\ DOMAIN r.t.heap = DOMAIN heap
       ELSE /\ r.t.m_tableCount = m_tableCount + 1
            /\ HeadOf(r.t, k) \notin DOMAIN heap
            /\ r.t.heap[HeadOf(r.t, k)].m_key = k
            /\ r.t.heap[HeadOf(r.t, k)].m_val = v
            /\ DOMAIN r.t.heap = DOMAIN heap \cup {HeadOf(r.t, k)}

\* C21: Set(k, v, Overwrite) returns true exactly when k was stored before
\* the call; then the value of k becomes v and GetCount() stays; when it
\* returns false a new node (k, v) is the head of the chain of k's bucket and
\* GetCount() is one more; every other key keeps its value in both cases.
C21_SetOverwrite ==
    Ready =>
        \A k \in KeySet : \A v \in 1..2 :
            SetOverwriteEffect(k, v, SetCall(This, k, v, Overwrite))

\* A Set(k, v, Overwrite) has returned true in a table of seven keys in which
\* key 0 has the value 2.
C21_Witness ==
    /\ last.op = "SetOverwrite" /\ last.ret = 1 /\ halt = "none"
    /\ m_tableCount = 7 /\ shadow[0] = 2

-----------------------------------------------------------------------------
(* C22 *)

\* The chain of bucket b (counted from 1) of t, head first.
ChainIn(t, b) ==
    ChainSeq(t.heap, t.m_table[b], Cardinality(Addrs) + 1)

\* Remove(k) on `this`, where node a holds k, returned r.ret and left r.t.
RemoveEffect(a, r) ==
    /\ r.t.halt = "none" /\ r.ret = 1
    /\ r.t.m_tableCount = m_tableCount - 1
    /\ DOMAIN r.t.heap = DOMAIN heap \ {a}
    /\ \A n \in DOMAIN r.t.heap :
          r.t.heap[n].m_key = heap[n].m_key /\ r.t.heap[n].m_val = heap[n].m_val
    /\ Len(r.t.m_table) = Len(m_table)
    /\ \A b \in 1..Len(m_table) :
          ChainIn(r.t, b) = SelectSeq(ChainIn(This, b), LAMBDA n : n # a)
    /\ r.t.m_tableSizeInfo = m_tableSizeInfo
    /\ r.t.m_tableMax = m_tableMax
    /\ r.t.m_alloc = m_alloc /\ ~r.t.realloc

\* C22: Remove(k) of a stored key unlinks and frees the node of k and no
\* other: GetCount() is one less, every other node keeps its key and value
\* and its place among the others of its bucket's chain, and the length of
\* the bucket array and the threshold stay as they were.
C22_RemoveStoredKey ==
    Ready =>
        \A a \in NodesOf(This) :
            RemoveEffect(a, RemoveCall(This, heap[a].m_key))

\* Keys 0, 9 and 207, which share a bucket, were inserted, and the Remove
\* just made took 9 out from among them.
C22_Witness ==
    /\ last.op = "Remove" /\ last.ret = 1 /\ halt = "none"
    /\ hist.track /\ hist.added = 3 /\ hist.removed = 1
    /\ shadow[9] = 0 /\ shadow[0] # 0 /\ shadow[207] # 0
    /\ \E b \in 1..Len(m_table) : Len(ChainIn(This, b)) = 2

-----------------------------------------------------------------------------
(* C23 *)

\* The step took the key of node a out of the table: RemoveAll, the
\* destructor, or a Remove of that key.
KeyTakenOut(a) ==
    \/ last'.op \in {"RemoveAll", "~JitHashTable"}
    \/ last'.op = "Remove" /\ shadow[heap[a].m_key] # 0 /\ shadow'[heap[a].m_key] = 0

\* The address a designates after the step the node of the same key, with the
\* value stored for that key.
StillDesignates(a) ==
    /\ a \in DOMAIN heap'
    /\ heap'[a].m_key = heap[a].m_key
    /\ heap'[a].m_val = shadow'[heap[a].m_key]

\* LookupPointer of the key of a node gives the address of that node.
PointersDesignate ==
    \A a \in DOMAIN heap : LookupPointer(This, heap[a].m_key) = a

\* C23: growth re-chains nodes and allocates none anew: a Reallocate leaves
\* the set of node addresses as it was, and over every step (insertions with
\* their automatic growth among them) the address of a node keeps designating
\* the stored value of the same key, unless the step removed that key or was
\* RemoveAll; the pointer that LookupPointer gives for a stored key is the
\* address of its node, and the one LookupPointerOrAdd and Emplace return is
\* the address of a node.
C23_ReferencesStay ==
    /\ []PointersDesignate
    /\ []((last.op \in {"LookupPointerOrAdd", "Emplace"} /\ halt = "none") =>
              last.ret \in DOMAIN heap)
    /\ [][/\ \A a \in DOMAIN heap : KeyTakenOut(a) \/ StillDesignates(a)
          /\ last'.grew => DOMAIN heap \subseteq DOMAIN heap'
          /\ last'.op = "Reallocate" => DOMAIN heap' = DOMAIN heap]_vars

\* An insertion has just grown a table of six entries to 23 buckets and
\* returned the address of the seventh node.
C23_Witness ==
    /\ last.op \in {"LookupPointerOrAdd", "Emplace"} /\ last.grew /\ halt = "none"
    /\ m_tableSizeInfo.prime = 23 /\ m_tableCount = 7
    /\ last.ret \in DOMAIN heap
    /\ Cardinality(DOMAIN heap) = 7

-----------------------------------------------------------------------------
(* C24 *)

\* The call that left the object t grew the table exactly if it was entered
\* with count == threshold, and then to the size Grow asks for.
GrewAsEntered(t) ==
    IF m_tableCount = m_tableMax
    THEN /\ t.realloc
         /\ t.m_tableSizeInfo = NextPrime(GrowSize(m_tableCount))
         /\ Len(t.m_table) = t.m_tableSizeInfo.prime
         /\ t.m_table # m_table
    ELSE /\ ~t.realloc
         /\ t.m_tableSizeInfo = m_tableSizeInfo
         /\ Len(t.m_table) = Len(m_table)
         /\ t.m_tableMax = m_tableMax

\* C24: every call of Set, LookupPointerOrAdd or Emplace entered with
\* count == threshold replaces the bucket array before it searches, also
\* when the key is stored and no node is added; a call entered
\* with count # threshold does not grow the table.
C24_GrowthByEntryState ==
    Ready =>
        \A p \in dom :
            /\ GrewAsEntered(LookupPointerOrAddCall(This, p[1], p[2]).t)
            /\ GrewAsEntered(EmplaceCall(This, p[1], p[2]).t)
            /\ \A kind \in {None, Overwrite} :
                  GrewAsEntered(SetCall(This, p[1], p[2], kind).t)

\* An insertion of a key that was stored found six entries at the threshold
\* of 6 and grew the table to 23 buckets; it added nothing.
C24_Witness ==
    /\ last.op \in {"LookupPointerOrAdd", "Emplace", "Set", "SetOverwrite"}
    /\ last.grew
    /\ m_tableSizeInfo.prime = 23 /\ m_tableCount = 6
    /\ Cardinality(DOMAIN heap) = 6

-----------------------------------------------------------------------------
(* C25 *)

\* If the call that left the object t grew the table, the bucket array is
\* longer than before, the threshold is above the count at entry, the count
\* after the call is within it, and the growth check of the next insertion
\* finds count # threshold.
GrewEnough(t) ==
    t.realloc =>
        /\ t.halt = "none"
        /\ Len(t.m_table) > Len(m_table)
        /\ t.m_tableSizeInfo.prime > m_tableSizeInfo.prime
        /\ t.m_tableMax > m_tableCount
        /\ t.m_tableCount <= t.m_tableMax
        /\ CheckGrowth(t) = t

\* C25: every automatic growth step that returns gives a bucket array longer
\* than the one before and a threshold above the current count, so that the
\* insertion that set it off ends with count <= threshold and the next
\* insertion does not grow again: for the insertions into the tables built,
\* and by sizes for a table of every stored size filled to its threshold (of
\* which the largest ends in NoMemory).
C25_GrowthIsEnough ==
    /\ Ready =>
          \A p \in dom :
              /\ GrewEnough(LookupPointerOrAddCall(This, p[1], p[2]).t)
              /\ GrewEnough(EmplaceCall(This, p[1], p[2]).t)
              /\ GrewEnough(SetCall(This, p[1], p[2], Overwrite).t)
    /\ last.grew /\ last.op # "CheckGrowth" /\ last.op # "Reallocate" =>
          m_tableCount <= m_tableMax /\ m_tableCount # m_tableMax
    /\ last.op = "CheckGrowth" =>
          IF last.grew
          THEN /\ halt = "none"
               /\ last.ret[1] > last.out[1]
               /\ last.ret[2] > last.out[2]
               /\ last.out[2] + 1 < last.ret[2]
          ELSE /\ halt = "nomem"
               /\ last.out[1] = jitPrimeInfo[Len(jitPrimeInfo)].prime

\* The seventh insertion found six entries at the threshold of 6, grew the
\* table from 9 to 23 buckets with the threshold 17, and added its key.
C25_Witness ==
    /\ last.op \in {"LookupPointerOrAdd", "Emplace", "SetOverwrite"} /\ last.grew
    /\ halt = "none"
    /\ m_tableSizeInfo.prime = 23 /\ m_tableMax = 17 /\ m_tableCount = 7

====
